---- MODULE Spec2Model ----
(***************************************************************************)
(* State machine of the ProductGrid component                              *)
(* (src/src/Routes/components/ProductGrid.jsx): the list fetch, the        *)
(* debounced search, the pagination handlers and the detail enrichment.    *)
(***************************************************************************)
EXTENDS Integers, Sequences, FiniteSets, TLC

VARIABLES
    characters,    \* useState([])   : the displayed page, a sequence of character ids
    search,        \* useState("")   : the text of the search box
    currentPage,   \* useState(1)
    selectedChar,  \* useState(null) : the detail record shown by the modal, or Null
    totalPages,    \* useState(1)
    loading,       \* useState(false)
    timerPending,  \* lodash.debounce: a trailing call is scheduled
    lastArgs,      \* lodash.debounce: the argument of the latest debouncedSearch call
    elapsed,       \* milliseconds since the latest debouncedSearch call
    inflight,      \* list requests awaiting their response, in issue order
    latest,        \* what the list fetch issued most recently committed, once answered
    enrich,        \* running fetchCharacterDetails calls, in click order
    lastClick      \* how far the most recent item click got, until the modal is closed

vars == <<characters, search, currentPage, selectedChar, totalPages, loading,
          timerPending, lastArgs, elapsed, inflight, latest, enrich,
          lastClick>>

listVars == <<characters, search, currentPage, totalPages, loading,
              timerPending, lastArgs, elapsed, inflight, latest>>

\* selectedChar is Null or holds one detail record
Null == <<>>
Shown(details) == <<details>>

\* ------------------------------------------------------------------ bounds
MaxInFlight == 2     \* list requests outstanding at once
MaxEnrich == 2       \* enrichments outstanding at once
TickMs == 250        \* granularity of the passage of time
DBSize == 21         \* records held by the remote service
MaxTotal == 25       \* largest record count of an arbitrary service

\* ------------------------------------------------------- program constants
itemsPerPage == 10
DebounceWait == 500

\* ------------------------------------------------------ the remote service
Terms == {"", "a", "b"}

\* The records a search term selects, in the order the service lists them:
\* every record for the empty term, every fourth one for "a", none for "b".
Matches(query) ==
    IF query = "" THEN [i \in 1..DBSize |-> i]
    ELSE IF query = "a" THEN [i \in 1..(DBSize \div 4) |-> 4 * i - 3]
    ELSE <<>>

Min(a, b) == IF a <= b THEN a ELSE b
Max(a, b) == IF a >= b THEN a ELSE b

\* GET /characters?search=query&page=page -> {results, total}
ServiceTotal(query) == Len(Matches(query))

\* the page-th page of the records all
PageSlice(all, page) ==
    LET lo == (page - 1) * itemsPerPage + 1
        hi == Min(page * itemsPerPage, Len(all))
    IN  IF lo > hi THEN <<>> ELSE SubSeq(all, lo, hi)

ServiceResults(query, page) == PageSlice(Matches(query), page)

\* the records of a service that holds t of them
Records(t) == [n \in 1..t |-> n]

\* (Math.floor in place of Math.ceil)
FloorDiv(a, b) == a \div b
\* Math.ceil(total / itemsPerPage) for a non-negative integer total
CeilDiv(a, b) == IF a % b = 0 THEN a \div b ELSE (a \div b) + 1

\* the largest page count the service can report
MaxPages == CeilDiv(DBSize, itemsPerPage)

\* --------------------------------------------------------- fetchCharacters
Request(query, page) == [query |-> query, page |-> page]

RemoveAt(s, i) == SubSeq(s, 1, i - 1) \o SubSeq(s, i + 1, Len(s))

\* the try branch: what a response commits
SuccessCharacters(req) == ServiceResults(req.query, req.page)
PagesFor(total) == CeilDiv(total, itemsPerPage)
SuccessTotalPages(req) == PagesFor(ServiceTotal(req.query))

\* the catch branch
FailureCharacters == <<>>

\* (a catch block that forgets setTotalPages(1))
FailureTotalPagesKept == totalPages
FailureTotalPages == 1

\* (setLoading(true) left out of fetchCharacters)
LoadingNotSet == loading
\* setLoading(true), the first statement of fetchCharacters
LoadingAfterIssue == TRUE

\* (setLoading(false) left out of the finally block)
LoadingNotCleared == loading
\* the finally branch
LoadingAfterCompletion == FALSE

\* Bookkeeping of the most recently issued fetch: it is the last of inflight
\* for as long as it is unanswered.
LatestPending == [done |-> FALSE, characters |-> <<>>, totalPages |-> 0]

LatestAfter(i, chars, pages) ==
    IF i = Len(inflight) /\ ~latest.done
    THEN [done |-> TRUE, characters |-> chars, totalPages |-> pages]
    ELSE latest

\* the try branch when the records the service selects for the request are all
FetchSuccessOf(i, all) ==
    /\ i \in 1..Len(inflight)
    /\ characters' = PageSlice(all, inflight[i].page)
    /\ totalPages' = PagesFor(Len(all))
    /\ loading' = LoadingAfterCompletion
    /\ inflight' = RemoveAt(inflight, i)
    /\ latest' = LatestAfter(i, characters', totalPages')
    /\ UNCHANGED <<search, currentPage, selectedChar, timerPending, lastArgs,
                   elapsed, enrich, lastClick>>

\* the try branch when the response comes from the service above
FetchSuccess(i) ==
    /\ i \in 1..Len(inflight)
    /\ FetchSuccessOf(i, Matches(inflight[i].query))

\* (a catch branch that issues the failed request again)
FetchFailureRetrying(i) ==
    /\ i \in 1..Len(inflight)
    /\ characters' = FailureCharacters
    /\ totalPages' = FailureTotalPages
    /\ loading' = LoadingAfterIssue
    /\ inflight' = Append(RemoveAt(inflight, i), inflight[i])
    /\ latest' = LatestPending
    /\ UNCHANGED <<search, currentPage, selectedChar, timerPending, lastArgs,
                   elapsed, enrich, lastClick>>

FetchFailure(i) ==
    /\ i \in 1..Len(inflight)
    /\ characters' = FailureCharacters
    /\ totalPages' = FailureTotalPages
    /\ loading' = LoadingAfterCompletion
    /\ inflight' = RemoveAt(inflight, i)
    /\ latest' = LatestAfter(i, characters', totalPages')
    /\ UNCHANGED <<search, currentPage, selectedChar, timerPending, lastArgs,
                   elapsed, enrich, lastClick>>

\* ------------------------------------------------- search box and debounce
\* useEffect[search]: debouncedSearch(search) re-arms the trailing timer
SetSearch(term) ==
    /\ term # search
    /\ search' = term
    /\ timerPending' = TRUE
    /\ lastArgs' = term
    /\ elapsed' = 0
    /\ UNCHANGED <<characters, currentPage, selectedChar, totalPages, loading,
                   inflight, latest, enrich, lastClick>>

\* onChange of the input
SearchChange(term) == term \in Terms /\ SetSearch(term)

\* the clear button, rendered when search is non-empty
SearchClear ==
    /\ search # ""
    /\ SetSearch("")

\* time passes while a trailing call is scheduled
Tick ==
    /\ timerPending
    /\ elapsed < DebounceWait
    /\ elapsed' = Min(elapsed + TickMs, DebounceWait)
    /\ UNCHANGED <<characters, search, currentPage, selectedChar, totalPages,
                   loading, timerPending, lastArgs, inflight, latest, enrich, lastClick>>

\* the query fetchCharacters is called with by useEffect[currentPage]
PageEffectQuery == ""

\* (a debounced callback that keeps the page it finds)
DebouncePageKept == currentPage
\* the page the debounced callback sets and fetches
DebouncePage == 1

\* The debounced callback: setCurrentPage(1); fetchCharacters(query, 1).
\* When currentPage was not 1 the render that follows runs
\* useEffect[currentPage] as well, which calls fetchCharacters("", 1); which
\* of the two requests leaves first depends on when React flushes the effect.
DebounceFire ==
    /\ timerPending
    /\ elapsed >= DebounceWait
    /\ timerPending' = FALSE
    /\ elapsed' = 0
    /\ currentPage' = DebouncePage
    /\ loading' = LoadingAfterIssue
    /\ LET own    == Request(lastArgs, DebouncePage)
           effect == Request(PageEffectQuery, DebouncePage)
       IN  IF currentPage = DebouncePage
           THEN /\ Len(inflight) < MaxInFlight
                /\ inflight' = Append(inflight, own)
                /\ latest' = LatestPending
           ELSE /\ Len(inflight) + 1 < MaxInFlight
                /\ \E effectLast \in BOOLEAN :
                     LET first  == IF effectLast THEN own ELSE effect
                         second == IF effectLast THEN effect ELSE own
                     IN  /\ inflight' = Append(Append(inflight, first), second)
                         /\ latest' = LatestPending
    /\ UNCHANGED <<characters, search, selectedChar, totalPages, lastArgs, enrich, lastClick>>

\* -------------------------------------------------------------- pagination
\* the pagination block is rendered iff !loading && characters.length > 0
PaginationShown == ~loading /\ Len(characters) > 0

PrevTarget == Max(currentPage - 1, 1)
NextTarget == Min(currentPage + 1, totalPages)

\* setCurrentPage(p); useEffect[currentPage] refetches when the page changed
GoToPage(p) ==
    /\ PaginationShown
    /\ currentPage' = p
    /\ IF p # currentPage
       THEN /\ Len(inflight) < MaxInFlight
            /\ loading' = LoadingAfterIssue
            /\ inflight' = Append(inflight, Request(PageEffectQuery, p))
            /\ latest' = LatestPending
       ELSE UNCHANGED <<loading, inflight, latest>>
    /\ UNCHANGED <<characters, search, selectedChar, totalPages, timerPending,
                   lastArgs, elapsed, enrich, lastClick>>

PrevPage == GoToPage(PrevTarget)
NextPage == GoToPage(NextTarget)
NumberedPage(p) == p \in 1..totalPages /\ GoToPage(p)

\* ----------------------------------------------------- character resources
NoUrl == 0      \* a falsy char.homeworld
Unset == "undefined"

\* The summary record the service returns for record c. The records come in
\* two kinds: one with a homeworld, two species and two films, and one with
\* no cross-reference at all.
Summary(c) ==
    IF c % 2 = 1
    THEN [name |-> "Luke Skywalker", homeworld |-> 1, species |-> <<1, 2>>,
          films |-> <<2, 1>>]
    ELSE [name |-> "R5-D4", homeworld |-> NoUrl, species |-> <<>>, films |-> <<>>]

Homeworld(char) == char.homeworld
Species(char) == char.species
Films(char) == char.films

\* GET {homeworld URL}.name, GET {species URL}.name, GET {film URL}.title
PlanetName(u) == IF u = 1 THEN "Tatooine" ELSE "Alderaan"
SpeciesName(u) == IF u = 1 THEN "Human" ELSE "Droid"
FilmTitle(u) == IF u = 1 THEN "A New Hope" ELSE "The Empire Strikes Back"

\* the longest films list of a record
MaxFilms == Max(Len(Summary(1).films), Len(Summary(2).films))

\* --------------------------------------------------- fetchCharacterDetails
\* (a details object that starts from the detail already shown)
NewDetailsOverShown(c) ==
    IF selectedChar = Null
    THEN [char |-> c, homeworld_name |-> Unset, species_name |-> Unset,
          film_titles |-> <<>>]
    ELSE [selectedChar[1] EXCEPT !.char = c]
\* const details = { ...char }
NewDetails(c) ==
    [char |-> c, homeworld_name |-> Unset, species_name |-> Unset,
     film_titles |-> <<>>]

Run(c, stage, details, arrived) ==
    [char |-> c, stage |-> stage, details |-> details, arrived |-> arrived]

\* (titles collected in the order the responses arrived)
JoinedTitlesByArrival(c, arrived) ==
    [i \in 1..Len(arrived) |-> FilmTitle(Films(c)[arrived[i]])]
\* films.map((f) => f.data.title) over the Promise.all result, which is
\* indexed by position in char.films whatever order the responses came in
JoinedTitles(c, arrived) == [i \in 1..Len(Films(c)) |-> FilmTitle(Films(c)[i])]

\* species_name when char.species is empty
DefaultSpeciesName == "Unknown"

\* (the species request sent to the last URL of the list)
SpeciesUrlLast(c) == Species(c)[Len(Species(c))]
\* the URL the species request goes to
SpeciesUrl(c) == Species(c)[1]

\* from the films branch on, up to the next await or to setSelectedChar
FromFilms(c, details) ==
    IF Len(Films(c)) > 0
    THEN Run(c, "films", details, <<>>)
    ELSE Run(c, "done", [details EXCEPT !.film_titles = <<>>], <<>>)

\* from the species branch on
FromSpecies(c, details) ==
    IF Len(Species(c)) > 0
    THEN Run(c, "species", details, <<>>)
    ELSE FromFilms(c, [details EXCEPT !.species_name = DefaultSpeciesName])

\* from the top of the try block on
FromStart(c) ==
    IF Homeworld(c) # NoUrl
    THEN Run(c, "homeworld", NewDetails(c), <<>>)
    ELSE FromSpecies(c, NewDetails(c))

\* lastClick: the most recent item click's enrichment is "pending", "done"
\* with the detail it passed to setSelectedChar, or "failed"; "closed" once
\* the modal's close button was pressed after it, "none" before any click
Click(status, shown) == [status |-> status, shown |-> shown]

\* lastClick after run k of enrich ended: the most recent click's run is the
\* last of enrich for as long as it is pending
ClickAfterEnd(k, outcome) ==
    IF lastClick.status = "pending" /\ k = Len(enrich) THEN outcome ELSE lastClick

\* the call went on to its next await, or reached setSelectedChar(details)
Continue(k, run) ==
    IF run.stage = "done"
    THEN /\ selectedChar' = Shown(run.details)
         /\ enrich' = RemoveAt(enrich, k)
         /\ lastClick' = ClickAfterEnd(k, Click("done", Shown(run.details)))
    ELSE /\ enrich' = [enrich EXCEPT ![k] = run]
         /\ UNCHANGED <<selectedChar, lastClick>>

\* (a catch block that shows what had been filled in so far)
AbortShowingPartial(k) ==
    /\ selectedChar' = Shown(enrich[k].details)
    /\ enrich' = RemoveAt(enrich, k)
    /\ lastClick' = ClickAfterEnd(k, Click("failed", Null))
\* the catch block: console.error only
Abort(k) ==
    /\ enrich' = RemoveAt(enrich, k)
    /\ lastClick' = ClickAfterEnd(k, Click("failed", Null))
    /\ UNCHANGED selectedChar

\* the grid is rendered iff !loading; onClick={() => fetchCharacterDetails(char)}
ItemClick(idx) ==
    /\ ~loading
    /\ idx \in 1..Len(characters)
    /\ Len(enrich) < MaxEnrich
    /\ LET run == FromStart(Summary(characters[idx]))
       IN  IF run.stage = "done"
           THEN /\ selectedChar' = Shown(run.details)
                /\ lastClick' = Click("done", Shown(run.details))
                /\ UNCHANGED enrich
           ELSE /\ enrich' = Append(enrich, run)
                /\ lastClick' = Click("pending", Null)
                /\ UNCHANGED selectedChar
    /\ UNCHANGED listVars

HomeworldResponse(k) ==
    /\ k \in 1..Len(enrich)
    /\ enrich[k].stage = "homeworld"
    /\ LET c == enrich[k].char
           d == [enrich[k].details EXCEPT
                   !.homeworld_name = PlanetName(Homeworld(c))]
       IN  Continue(k, FromSpecies(c, d))
    /\ UNCHANGED listVars

\* (a catch block that also empties the list, as fetchCharacters's does)
HomeworldFailureClearingList(k) ==
    /\ k \in 1..Len(enrich)
    /\ enrich[k].stage = "homeworld"
    /\ Abort(k)
    /\ characters' = FailureCharacters
    /\ UNCHANGED <<search, currentPage, totalPages, loading, timerPending,
                   lastArgs, elapsed, inflight, latest>>

HomeworldFailure(k) ==
    /\ k \in 1..Len(enrich)
    /\ enrich[k].stage = "homeworld"
    /\ Abort(k)
    /\ UNCHANGED listVars

SpeciesResponse(k) ==
    /\ k \in 1..Len(enrich)
    /\ enrich[k].stage = "species"
    /\ LET c == enrich[k].char
           d == [enrich[k].details EXCEPT
                   !.species_name = SpeciesName(SpeciesUrl(c))]
       IN  Continue(k, FromFilms(c, d))
    /\ UNCHANGED listVars

SpeciesFailure(k) ==
    /\ k \in 1..Len(enrich)
    /\ enrich[k].stage = "species"
    /\ Abort(k)
    /\ UNCHANGED listVars

Range(s) == {s[i] : i \in 1..Len(s)}

\* one of the concurrent film requests is answered; Promise.all resolves
\* with the last of them
FilmResponse(k, j) ==
    /\ k \in 1..Len(enrich)
    /\ enrich[k].stage = "films"
    /\ j \in (1..Len(Films(enrich[k].char))) \ Range(enrich[k].arrived)
    /\ LET c   == enrich[k].char
           arr == Append(enrich[k].arrived, j)
       IN  IF Len(arr) = Len(Films(c))
           THEN Continue(k, Run(c, "done",
                    [enrich[k].details EXCEPT !.film_titles = JoinedTitles(c, arr)],
                    arr))
           ELSE Continue(k, [enrich[k] EXCEPT !.arrived = arr])
    /\ UNCHANGED listVars

\* one film request fails: Promise.all rejects at once
FilmFailure(k, j) ==
    /\ k \in 1..Len(enrich)
    /\ enrich[k].stage = "films"
    /\ j \in (1..Len(Films(enrich[k].char))) \ Range(enrich[k].arrived)
    /\ Abort(k)
    /\ UNCHANGED listVars

\* the modal's close button: setSelectedChar(null)
CloseModal ==
    /\ selectedChar # Null
    /\ selectedChar' = Null
    /\ lastClick' = Click("closed", Null)
    /\ UNCHANGED <<enrich>>
    /\ UNCHANGED listVars

\* ------------------------------------------------------------------- mount
\* After the first render both effects have run: fetchCharacters("", 1) is
\* outstanding and debouncedSearch("") has scheduled its trailing call.
Init ==
    /\ characters = <<>>
    /\ search = ""
    /\ currentPage = 1
    /\ selectedChar = Null
    /\ totalPages = 1
    /\ loading = TRUE
    /\ timerPending = TRUE
    /\ lastArgs = ""
    /\ elapsed = 0
    /\ inflight = <<Request(PageEffectQuery, 1)>>
    /\ latest = LatestPending
    /\ enrich = <<>>
    /\ lastClick = Click("none", Null)

\* a list response or error arrives
Complete == \E i \in 1..MaxInFlight : FetchSuccess(i) \/ FetchFailure(i)

\* the list controller: fetch completions, search box, debounce, pagination
ListNext ==
    \/ \E i \in 1..MaxInFlight : FetchSuccess(i)
    \/ \E i \in 1..MaxInFlight : FetchFailure(i)
    \/ \E term \in Terms : SearchChange(term)
    \/ SearchClear
    \/ Tick
    \/ DebounceFire
    \/ PrevPage
    \/ NextPage
    \/ \E p \in 1..MaxPages : NumberedPage(p)

\* the detail enrichment controller and the modal
DetailNext ==
    \/ \E idx \in 1..itemsPerPage : ItemClick(idx)
    \/ \E k \in 1..MaxEnrich : HomeworldResponse(k)
    \/ \E k \in 1..MaxEnrich : HomeworldFailure(k)
    \/ \E k \in 1..MaxEnrich : SpeciesResponse(k)
    \/ \E k \in 1..MaxEnrich : SpeciesFailure(k)
    \/ \E k \in 1..MaxEnrich, j \in 1..MaxFilms : FilmResponse(k, j)
    \/ \E k \in 1..MaxEnrich, j \in 1..MaxFilms : FilmFailure(k, j)
    \/ CloseModal

Next == ListNext \/ DetailNext

\* the whole component
Spec == Init /\ [][Next]_vars

\* The list controller alone. No list action reads selectedChar or enrich,
\* and every action of DetailNext leaves listVars unchanged, so the list
\* state of a behaviour of Spec is a behaviour of ListSpec.
ListSpec == Init /\ [][ListNext]_vars

\* ListSpec with every outstanding list request eventually answered
FairListSpec == ListSpec /\ WF_vars(Complete)

\* ListSpec when no list request fails
OkListNext ==
    \/ \E i \in 1..MaxInFlight : FetchSuccess(i)
    \/ \E term \in Terms : SearchChange(term)
    \/ SearchClear
    \/ Tick
    \/ DebounceFire
    \/ PrevPage
    \/ NextPage
    \/ \E p \in 1..MaxPages : NumberedPage(p)

OkListSpec == Init /\ [][OkListNext]_vars

\* the list controller when the search box is never edited
BrowseNext ==
    \/ \E i \in 1..MaxInFlight : FetchSuccess(i)
    \/ \E i \in 1..MaxInFlight : FetchFailure(i)
    \/ Tick
    \/ DebounceFire
    \/ PrevPage
    \/ NextPage
    \/ \E p \in 1..MaxPages : NumberedPage(p)

\* The component when the search box is never edited: the enrichment reads
\* of the list state only loading and characters, and the records of every
\* kind are on the pages of the unfiltered list.
DetailSpec == Init /\ [][BrowseNext \/ DetailNext]_vars

\* The list controller when the search box is never edited and the service
\* may hold any number of records of 0..MaxTotal when it answers.
TotalNext ==
    \/ \E i \in 1..MaxInFlight, t \in 0..MaxTotal : FetchSuccessOf(i, Records(t))
    \/ \E i \in 1..MaxInFlight : FetchFailure(i)
    \/ Tick
    \/ DebounceFire
    \/ PrevPage
    \/ NextPage
    \/ \E p \in 1..MaxPages : NumberedPage(p)

TotalSpec == Init /\ [][TotalNext]_vars

\* ===================================================================== claims
\* a step in which a list request is issued / answered
IssueStep == Len(inflight') > Len(inflight)
CompleteStep == Len(inflight') < Len(inflight)
\* the step in which the debounced callback runs
FireStep == timerPending /\ ~timerPending'
\* the requests a step issues
Issued == SubSeq(inflight', Len(inflight) + 1, Len(inflight'))

\* C1: once every list fetch has completed, characters and totalPages are
\* those of the fetch issued last, whatever order the responses came in.
C1_LatestFetchWins ==
    inflight = <<>> =>
        /\ characters = latest.characters
        /\ totalPages = latest.totalPages

\* C2: a pagination click that changes currentPage issues a fetch whose query
\* is the search term and whose page is the new page (stated for the clicks
\* made when no search update is waiting for its timer, so that the term of
\* the search box is the term last searched for).
C2_PageChangeKeepsQuery ==
    [][(currentPage' # currentPage /\ ~timerPending) =>
          /\ Len(Issued) = 1
          /\ Issued[1] = Request(search, currentPage')]_vars

\* C3: once the debounce timer has fired and every list fetch has completed
\* successfully, the list shown is the service's answer for
\* (search, currentPage).
C3_ListMatchesSearchAndPage ==
    (~timerPending /\ inflight = <<>>) =>
        /\ characters = ServiceResults(search, currentPage)
        /\ totalPages = CeilDiv(ServiceTotal(search), itemsPerPage)

\* C4: currentPage lies in 1..totalPages in every reachable state.
C4_PageInRange == 1 <= currentPage /\ currentPage <= totalPages

\* C5: totalPages is at least 1 in every reachable state.
C5_TotalPagesPositive == totalPages >= 1

\* C6: a search update issues no list fetch, and the firing of the debounce
\* timer issues exactly one, whose query is the last term typed.
C6_OneFetchPerBurst ==
    [][/\ (search' # search) => inflight' = inflight
       /\ FireStep => (Len(Issued) = 1 /\ Issued[1].query = search)]_vars

\* C7: when the debounce timer fires, currentPage becomes 1 and the fetch
\* issued for the committed term uses page 1, whatever currentPage was.
C7_DebounceResetsPage ==
    [][FireStep =>
          /\ currentPage' = 1
          /\ \E n \in 1..Len(Issued) : Issued[n] = Request(lastArgs, 1)
          /\ \A n \in 1..Len(Issued) : Issued[n].page = 1]_vars

\* the timer has fired from page 2: the fetch for the term and the fetch of
\* the page effect are both outstanding, page 2 of the full list still shown
C7_Witness ==
    /\ ~timerPending
    /\ currentPage = 1
    /\ search = "a"
    /\ inflight = <<Request("a", 1), Request("", 1)>>
    /\ characters = ServiceResults("", 2)

\* C8: a step that issues a list fetch sets loading, a step in which one
\* completes (response or error) clears it, and when every fetch is
\* eventually answered loading is eventually false.
C8_LoadingLifecycle ==
    /\ [][/\ IssueStep => loading'
          /\ CompleteStep => ~loading']_vars
    /\ [](loading => <>(~loading))

\* a fetch has just failed with another one still outstanding
C8_Witness ==
    /\ ~loading
    /\ Len(inflight) = 1
    /\ characters = <<>>
    /\ totalPages = 1
    /\ currentPage = 2

\* C9: the step that handles a failed list fetch sets characters to the
\* empty list and totalPages to 1, whatever they held.
C9_FailureResetsList ==
    [][(\E i \in 1..Len(inflight) : FetchFailure(i)) =>
          (characters' = <<>> /\ totalPages' = 1)]_vars

\* a full page of a list of several pages is shown while a request is outstanding
C9_Witness ==
    /\ Len(characters) = itemsPerPage
    /\ totalPages > 1
    /\ Len(inflight) > 0

\* a step in which one of an enrichment's requests fails
EnrichFailure(k) ==
    \/ HomeworldFailure(k)
    \/ SpeciesFailure(k)
    \/ \E j \in 1..MaxFilms : FilmFailure(k, j)

\* C10: when the homeworld, the species or a film request of an enrichment
\* fails, the enrichment ends there and selectedChar keeps its value.
C10_EnrichmentAllOrNothing ==
    [][\A k \in 1..Len(enrich) : EnrichFailure(k) =>
          /\ selectedChar' = selectedChar
          /\ enrich' = RemoveAt(enrich, k)]_vars

\* one film of two has arrived, the homeworld and species names are filled
\* in, and the modal shows another record
C10_Witness ==
    /\ selectedChar # Null
    /\ \E k \in 1..Len(enrich) :
         /\ enrich[k].stage = "films"
         /\ Len(enrich[k].arrived) = 1
         /\ enrich[k].details.homeworld_name # Unset
         /\ enrich[k].details.char # selectedChar[1].char

\* C14: previous goes to max(p - 1, 1), next to min(p + 1, totalPages), a
\* numbered button to a page of 1..totalPages, and the fetch a navigation
\* click issues has its page in 1..totalPages, totalPages as of the click.
C14_NavigationClamped ==
    [][(currentPage' # currentPage /\ ~FireStep) =>
          /\ currentPage' \in {PrevTarget, NextTarget} \cup (1..totalPages)
          /\ \A n \in 1..Len(Issued) :
               1 <= Issued[n].page /\ Issued[n].page <= totalPages]_vars

\* C11: the film_titles of a shown detail has one title per entry of the
\* record's films, and its i-th title is the title of the i-th film URL,
\* whatever order the film responses arrived in.
C11_FilmTitlesPositional ==
    selectedChar # Null =>
        LET d     == selectedChar[1]
            films == Films(d.char)
        IN  /\ Len(d.film_titles) = Len(films)
            /\ \A i \in 1..Len(films) : d.film_titles[i] = FilmTitle(films[i])

\* a detail with two film titles is shown while, in another enrichment, the
\* response for the second film has arrived before the one for the first
C11_Witness ==
    /\ selectedChar # Null
    /\ Len(selectedChar[1].film_titles) = 2
    /\ \E k \in 1..Len(enrich) :
         enrich[k].stage = "films" /\ enrich[k].arrived = <<2>>

\* species_name as the source's species branch leaves it for record c
ExpectedSpeciesName(c) ==
    IF Len(Species(c)) = 0 THEN "Unknown" ELSE SpeciesName(Species(c)[1])

\* C12: an enrichment waits for a species response only when the record's
\* species list is non-empty; past the species branch species_name is
\* "Unknown" for an empty list and otherwise the name served at the first
\* URL of the list, and before that branch it is not set.
C12_SpeciesFirstOrUnknown ==
    /\ selectedChar # Null =>
         selectedChar[1].species_name = ExpectedSpeciesName(selectedChar[1].char)
    /\ \A k \in 1..Len(enrich) :
         /\ enrich[k].stage = "species" => Len(Species(enrich[k].char)) > 0
         /\ enrich[k].stage = "films" =>
              enrich[k].details.species_name = ExpectedSpeciesName(enrich[k].char)
         /\ enrich[k].stage \in {"homeworld", "species"} =>
              enrich[k].details.species_name = Unset

\* the detail of a record with two species URLs is shown, named after the first
C12_Witness ==
    /\ selectedChar # Null
    /\ Len(Species(selectedChar[1].char)) = 2
    /\ selectedChar[1].species_name = "Human"

\* k is the least number of pages of itemsPerPage records that hold t records
LeastCover(k, t) ==
    /\ k >= 0
    /\ k * itemsPerPage >= t
    /\ (k - 1) * itemsPerPage < t

\* C13: a successful response reporting t records, for any t of 0..MaxTotal,
\* sets totalPages to ceil(t / itemsPerPage).
C13_TotalPagesCeiling ==
    [][\A i \in 1..MaxInFlight, t \in 0..MaxTotal :
          FetchSuccessOf(i, Records(t)) => LeastCover(totalPages', t)]_vars

\* a successful response that reported no records was the last to commit
C13_Witness ==
    /\ latest.done
    /\ totalPages = 0
    /\ latest.totalPages = 0
    /\ inflight = <<>>
\* the detail the source builds for record c when every request succeeds
ExpectedDetail(c) ==
    [char           |-> c,
     homeworld_name |-> IF Homeworld(c) # NoUrl
                        THEN PlanetName(Homeworld(c)) ELSE Unset,
     species_name   |-> ExpectedSpeciesName(c),
     film_titles    |-> [i \in 1..Len(Films(c)) |-> FilmTitle(Films(c)[i])]]

\* record c has nothing to request
NoRequests(c) == Homeworld(c) = NoUrl /\ Len(Species(c)) = 0 /\ Len(Films(c)) = 0

\* C15: selectedChar (the modal is rendered iff it is not Null) is Null
\* initially; it takes a new non-Null value only in a step that ends an
\* enrichment, and the value is the detail built from that click's record
\* alone; a step that makes it Null leaves the enrichments alone (the close
\* button); and an enrichment a click starts begins from the bare record.
C15_SelectedDetailLifecycle ==
    /\ selectedChar = Null
    /\ [][/\ (selectedChar' # selectedChar /\ selectedChar' # Null) =>
              \/ \E k \in 1..Len(enrich) :
                    /\ enrich' = RemoveAt(enrich, k)
                    /\ selectedChar' = Shown(ExpectedDetail(enrich[k].char))
              \/ \E idx \in 1..Len(characters) :
                    /\ enrich' = enrich
                    /\ NoRequests(Summary(characters[idx]))
                    /\ selectedChar' = Shown(ExpectedDetail(Summary(characters[idx])))
          /\ (selectedChar' # selectedChar /\ selectedChar' = Null) =>
              enrich' = enrich
          /\ Len(enrich') > Len(enrich) =>
              LET run == enrich'[Len(enrich')]
              IN  /\ enrich' = Append(enrich, run)
                  /\ run.details.char = run.char
                  /\ run.details.homeworld_name = Unset
                  /\ run.details.species_name = Unset
                  /\ run.details.film_titles = <<>>]_vars

\* a detail is shown while the enrichment of a later click has just begun
C15_Witness ==
    /\ selectedChar # Null
    /\ \E k \in 1..Len(enrich) : enrich[k].stage = "homeworld"

\* C16: the completion of list request i, response or error, removes that
\* request from the outstanding ones and adds none, and leaves currentPage,
\* search, selectedChar, the debounce timer and the enrichments unchanged.
C16_CompletionFrame ==
    [][\A i \in 1..MaxInFlight :
          (FetchSuccess(i) \/ FetchFailure(i)) =>
              /\ inflight' = RemoveAt(inflight, i)
              /\ UNCHANGED <<currentPage, search, selectedChar, timerPending,
                             lastArgs, enrich>>]_vars

\* a request for page 2 failed while a detail was shown
C16_Witness ==
    /\ selectedChar # Null
    /\ currentPage = 2
    /\ latest.done
    /\ inflight = <<>>
    /\ characters = <<>>
    /\ totalPages = 1

\* C17 as stated: while a list request is outstanding, loading is true.
C17_LoadingWhileInFlight == Len(inflight) > 0 => loading

\* C17 amended: loading is true after every step that issues a list request
\* and stays true until a list request completes, whichever one that is.
C17_LoadingUntilFirstCompletion ==
    [][/\ IssueStep => loading'
       /\ (loading /\ ~CompleteStep) => loading']_vars

\* two list requests are outstanding and the loader is shown
C17_Witness == Len(inflight) = 2 /\ loading

\* C18: after the close button was pressed and until the next item click,
\* selectedChar is Null.
C18_ClosedStaysClosed == lastClick.status = "closed" => selectedChar = Null

\* C19: when the enrichment of the most recent click has succeeded, the
\* modal was not closed since, and no enrichment is running, selectedChar is
\* the detail of that click.
C19_LastClickShown ==
    (lastClick.status = "done" /\ enrich = <<>>) => selectedChar = lastClick.shown

\* a step of an enrichment: a run starts, advances or ends, or a click on a
\* record with nothing to request shows its detail
EnrichStep ==
    \/ enrich' # enrich
    \/ selectedChar' # selectedChar /\ selectedChar' # Null

\* C20: a step of an enrichment leaves characters, totalPages, currentPage,
\* loading and search unchanged and issues no list request.
C20_EnrichmentFrame ==
    [][EnrichStep =>
          /\ UNCHANGED <<characters, totalPages, currentPage, loading, search>>
          /\ UNCHANGED <<inflight, timerPending, lastArgs>>]_vars

\* an enrichment failed on page 2 of the list and left the page as it was
C20_Witness ==
    /\ lastClick.status = "failed"
    /\ currentPage = 2
    /\ Len(characters) = itemsPerPage
    /\ totalPages = MaxPages
    /\ ~loading
====
